---- MODULE Spec2Model ----
(***************************************************************************)
(* Model of py_helper/extract_notes.py (piano-note onset detection over a  *)
(* spectrogram) and of the note naming of py_helper/midi_extractor.py.     *)
(*                                                                         *)
(* Numbers.  Python floats are modelled by exact integers on fixed scales: *)
(*   - times and gaps in units of 10 ms (the 0.03 s window is 3);          *)
(*   - magnitudes, onset strengths and thresholds in tenths (1.0 is 10),   *)
(*     so  m >= max_mag * 0.7  is  10*m >= 7*max_mag;                      *)
(*   - frequencies in millihertz.                                          *)
(* numpy arrays are functions on 0..n-1 (the code's own indices); Python   *)
(* lists are sequences.                                                    *)
(***************************************************************************)
EXTENDS Integers, Sequences, FiniteSets, TLC

VARIABLES
    pc,               \* position in detect_note_events / the helper being run
    f,                \* frequency axis (input)
    nframes,          \* len(t): number of time frames (input)
    dt,               \* t[1] - t[0], the uniform frame period (input)
    onset_threshold,  \* configuration
    peak_prominence,  \* configuration
    min_note_gap,     \* configuration
    min_magnitude,    \* configuration
    S_all_zero,       \* whether every value of S read so far is zero
    note_bins,        \* result of map_notes_to_bins
    note_idx,         \* loop counter of the per-note loop
    magnitudes,       \* note_series[note_idx, :] of the current note
    onset_strength,   \* onset strength of the current note
    peaks,            \* find_peaks result of the current note
    all_events,       \* raw events
    i,                \* scan index of the harmonic pass
    window_events,    \* the last window formed by the scan
    strong_events,    \* what the last window kept
    filtered_events,  \* output list
    key,              \* loop counter of get_piano_frequencies
    names,            \* names built so far by get_piano_frequencies
    midi_number,      \* argument of midi_note_to_name
    note_name,        \* result of midi_note_to_name
    tracks,           \* midi.tracks: the messages of each track (input)
    all_track_events, \* note markers with absolute ticks (midi_to_json)
    raw_events,       \* note markers with times
    midi_current_time, \* current_time of midi_to_json, in units of
                      \* 1/ticks_per_beat microseconds
    ev,               \* position of the pairing loop in raw_events
    active_notes,     \* per key, the queue of unmatched note-ons
    data_events,      \* data["events"]
    data_num_events   \* data["num_events"]

vars == << pc, f, nframes, dt, onset_threshold, peak_prominence, min_note_gap,
           min_magnitude, S_all_zero, note_bins, note_idx, magnitudes,
           onset_strength, peaks, all_events, i, window_events, strong_events,
           filtered_events, key, names, midi_number, note_name, tracks,
           all_track_events, raw_events, midi_current_time, ev, active_notes,
           data_events, data_num_events >>

\* the variables of midi_to_json
midi_state == << tracks, all_track_events, raw_events, midi_current_time, ev,
                 active_notes, data_events, data_num_events >>

----------------------------------------------------------------------------
(* Bounds of the model *)

\* the per-note loop runs over this many pitches (the code: 88)
NumNotes == 3

\* the largest number of time frames of a spectrogram
NumFrames == 5

\* the largest number of bins of a frequency axis of the bin-mapping runs
MaxBins == 3

\* bin frequencies of the bin-mapping runs, in millihertz: 27000 and 28000
\* are equally far from A0 (27500), 29135 is A#0 itself
AxisFreqs == {27000, 28000, 29135, 40000, 5000000}

\* magnitude levels of the grid, in tenths
Mags == {0, 2, 4, 7, 10}

\* the frames at which a channel of the detection run is non-zero
StrikeSets == {{}, {0}, {1}, {2}, {3}, {1, 3}}

\* frame periods in units of 10 ms: below, and at, the 30 ms window
FramePeriods == {1, 2, 3}

\* min_note_gap values in units of 10 ms
NoteGaps == {1, 3, 5}

\* threshold values of the single-channel runs, in tenths
ChannelHeights == {2, 5}
ChannelProminences == {1, 3, 5}
ChannelPeriods == {1, 2}
ChannelGaps == {1, 2, 3}

\* threshold values of the detection run, in tenths
OnsetThresholds == {2}
PeakProminences == {1}
MinMagnitudes == {3}

----------------------------------------------------------------------------
(* Arrays and arithmetic *)

Size(x) == Cardinality(DOMAIN x)

Max2(a, b) == IF a >= b THEN a ELSE b

Abs(a) == IF a >= 0 THEN a ELSE -a

\* Python int(a / b) for a >= 0, b > 0: truncation
IntDiv(a, b) == a \div b

\* Python round(a / b) for a >= 0, b > 0: to nearest, halves to even
RoundDiv(a, b) ==
    LET q == a \div b
        r == a % b
    IN  IF 2 * r < b THEN q
        ELSE IF 2 * r > b THEN q + 1
        ELSE IF q % 2 = 0 THEN q ELSE q + 1

\* the time axis: uniform, t[k] = k * dt
t(k) == k * dt

----------------------------------------------------------------------------
(* get_piano_frequencies *)

notes == << "A", "A#", "B", "C", "C#", "D", "D#", "E", "F", "F#", "G", "G#" >>

\* 440.0 * 2 ** ((key - 49) / 12.0), key = 1..88, rounded to millihertz
piano_freqs == <<
    27500, 29135, 30868, 32703, 34648, 36708, 38891, 41203,
    43654, 46249, 48999, 51913, 55000, 58270, 61735, 65406,
    69296, 73416, 77782, 82407, 87307, 92499, 97999, 103826,
    110000, 116541, 123471, 130813, 138591, 146832, 155563, 164814,
    174614, 184997, 195998, 207652, 220000, 233082, 246942, 261626,
    277183, 293665, 311127, 329628, 349228, 369994, 391995, 415305,
    440000, 466164, 493883, 523251, 554365, 587330, 622254, 659255,
    698456, 739989, 783991, 830609, 880000, 932328, 987767, 1046502,
    1108731, 1174659, 1244508, 1318510, 1396913, 1479978, 1567982, 1661219,
    1760000, 1864655, 1975533, 2093005, 2217461, 2349318, 2489016, 2637020,
    2793826, 2959955, 3135963, 3322438, 3520000, 3729310, 3951066, 4186009 >>

\* faulty variant: the octave changes at A instead of C
PianoKeyName_OctaveAtA(k) ==
    LET idx == (k - 1) % 12
        octave == (k - 1) \div 12
    IN  << notes[idx + 1], octave >>

\* the name appended for one key: f"{note_name}{octave}" as the pair
\* << note_name, octave >>
PianoKeyName(k) ==
    LET idx == (k - 1) % 12
        octave == (k + 8) \div 12
    IN  << notes[idx + 1], octave >>

\* the names list returned by get_piano_frequencies; piano_names[n + 1] is
\* the code's piano_names[n]
piano_names == [k \in 1..88 |-> PianoKeyName(k)]

----------------------------------------------------------------------------
(* midi_note_to_name (midi_extractor.py) *)

midi_notes == << "C", "C#", "D", "D#", "E", "F", "F#", "G", "G#", "A", "A#", "B" >>

midi_note_to_name(m) ==
    LET octave == (m \div 12) - 1
        note == midi_notes[(m % 12) + 1]
    IN  << note, octave >>

----------------------------------------------------------------------------
(* map_notes_to_bins *)

RECURSIVE ArgMinScan(_, _, _)
\* the scan of np.argmin from index k with the best index so far: a later
\* element replaces the best only when it is strictly smaller
ArgMinScan(x, k, best) ==
    IF k > Size(x) - 1 THEN best
    ELSE ArgMinScan(x, k + 1, IF x[k] < x[best] THEN k ELSE best)

RECURSIVE ArgMinScan_LastWins(_, _, _)
\* faulty variant: an equal later element replaces the best
ArgMinScan_LastWins(x, k, best) ==
    IF k > Size(x) - 1 THEN best
    ELSE ArgMinScan_LastWins(x, k + 1, IF x[k] <= x[best] THEN k ELSE best)

\* faulty variant: ties go to the highest index
ArgMin_LastWins(x) == ArgMinScan_LastWins(x, 1, 0)

\* np.argmin(x): the first index of the least value; x is non-empty
ArgMin(x) == ArgMinScan(x, 1, 0)

\* idx = np.argmin(np.abs(freqs_hz - pf))
NearestBin(freqs_hz, pf) ==
    ArgMin([k \in DOMAIN freqs_hz |-> Abs(freqs_hz[k] - pf)])

\* np.argmin raises ValueError on an empty array
map_notes_to_bins_raises(freqs_hz) == Size(freqs_hz) = 0

\* bins for the first n pitches (the model's per-note loop uses NumNotes)
map_notes_to_bins(freqs_hz, n) ==
    [p \in 0..(n - 1) |-> NearestBin(freqs_hz, piano_freqs[p + 1])]

----------------------------------------------------------------------------
(* onset strength: np.maximum(np.diff(magnitudes, prepend=0), 0) *)

\* faulty variant: the first difference is taken to be 0
DiffPrepend0_FirstZero(x) ==
    [k \in DOMAIN x |-> IF k = 0 THEN 0 ELSE x[k] - x[k - 1]]

\* np.diff(x, prepend=0): x[0] - 0, then x[k] - x[k-1]
DiffPrepend0(x) ==
    [k \in DOMAIN x |-> IF k = 0 THEN x[0] - 0 ELSE x[k] - x[k - 1]]

OnsetStrength(x) ==
    LET d == DiffPrepend0(x)
    IN  [k \in DOMAIN x |-> Max2(d[k], 0)]

----------------------------------------------------------------------------
(* scipy.signal.find_peaks(x, height, prominence, distance), as called by  *)
(* detect_note_events: local maxima, then the height filter, then the      *)
(* distance selection, then the prominence filter.                         *)

RECURSIVE PlateauEnd(_, _, _)
\* while i_ahead < i_max and x[i_ahead] == x[i]: i_ahead += 1
PlateauEnd(x, v, ahead) ==
    IF ahead < Size(x) - 1 /\ x[ahead] = v
    THEN PlateauEnd(x, v, ahead + 1)
    ELSE ahead

RECURSIVE LocalMaximaFrom(_, _)
\* _local_maxima_1d: the scan from index k; a flat peak gives its midpoint
LocalMaximaFrom(x, k) ==
    IF k >= Size(x) - 1 THEN << >>
    ELSE IF x[k - 1] < x[k]
         THEN LET ahead == PlateauEnd(x, x[k], k + 1)
              IN  IF x[ahead] < x[k]
                  THEN << (k + ahead - 1) \div 2 >> \o LocalMaximaFrom(x, ahead + 1)
                  ELSE LocalMaximaFrom(x, k + 1)
         ELSE LocalMaximaFrom(x, k + 1)

LocalMaxima(x) == LocalMaximaFrom(x, 1)

\* _select_by_property with a lower bound only: keep where x[peak] >= height
SelectByHeight(x, pk, height) ==
    SelectSeq(pk, LAMBDA p : x[p] >= height)

\* position j comes before position k in np.argsort(priority) (ties keep
\* their index order)
PriorityBefore(x, pk, j, k) ==
    \/ x[pk[j]] < x[pk[k]]
    \/ (x[pk[j]] = x[pk[k]] /\ j < k)

\* the position visited at step r = 1, 2, ...: the loop runs over the
\* argsort from its last entry (highest priority) down
PriorityPosition(x, pk, r) ==
    CHOOSE j \in 1..Len(pk) :
        Cardinality({k \in 1..Len(pk) : PriorityBefore(x, pk, j, k)}) = r - 1

RECURSIVE DistanceKeep(_, _, _, _, _)
\* _select_by_peak_distance: the keep flags after steps r..Len(pk)
DistanceKeep(x, pk, distance, keep, r) ==
    IF r > Len(pk) THEN keep
    ELSE LET j == PriorityPosition(x, pk, r)
         IN  IF ~keep[j]
             THEN DistanceKeep(x, pk, distance, keep, r + 1)
             ELSE DistanceKeep(x, pk, distance,
                     [k \in 1..Len(pk) |->
                         IF k # j /\ Abs(pk[k] - pk[j]) < distance
                         THEN FALSE ELSE keep[k]],
                     r + 1)

RECURSIVE KeepFlagged(_, _, _)
KeepFlagged(pk, keep, k) ==
    IF k > Len(pk) THEN << >>
    ELSE (IF keep[k] THEN << pk[k] >> ELSE << >>) \o KeepFlagged(pk, keep, k + 1)

SelectByDistance(x, pk, distance) ==
    KeepFlagged(pk, DistanceKeep(x, pk, distance, [k \in 1..Len(pk) |-> TRUE], 1), 1)

\* the least index lo <= peak with x[lo..peak] all <= x[peak]
RECURSIVE LeftReach(_, _, _)
LeftReach(x, peak, k) ==
    IF k - 1 >= 0 /\ x[k - 1] <= x[peak] THEN LeftReach(x, peak, k - 1) ELSE k

\* the greatest index hi >= peak with x[peak..hi] all <= x[peak]
RECURSIVE RightReach(_, _, _)
RightReach(x, peak, k) ==
    IF k + 1 <= Size(x) - 1 /\ x[k + 1] <= x[peak] THEN RightReach(x, peak, k + 1) ELSE k

MinOver(x, lo, hi) ==
    CHOOSE v \in {x[k] : k \in lo..hi} : \A k \in lo..hi : v <= x[k]

\* _peak_prominences with wlen unset
Prominence(x, peak) ==
    LET left_min == MinOver(x, LeftReach(x, peak, peak), peak)
        right_min == MinOver(x, peak, RightReach(x, peak, peak))
    IN  x[peak] - Max2(left_min, right_min)

SelectByProminence(x, pk, prominence) ==
    SelectSeq(pk, LAMBDA p : Prominence(x, p) >= prominence)

\* find_peaks raises ValueError when distance < 1
find_peaks_raises(distance) == distance < 1

\* faulty variant: the prominence filter runs before the distance selection
find_peaks_ProminenceFirst(x, height, prominence, distance) ==
    SelectByDistance(x,
        SelectByProminence(x, SelectByHeight(x, LocalMaxima(x), height), prominence),
        distance)

find_peaks(x, height, prominence, distance) ==
    SelectByProminence(x,
        SelectByDistance(x, SelectByHeight(x, LocalMaxima(x), height), distance),
        prominence)

----------------------------------------------------------------------------
(* detect_note_events: events and the two sorts *)

\* int(note_idx + 21)
EventMidi(n) == n + 21

\* the dict appended for an accepted peak of note n at frame peak_idx
Event(n, x, os, peak_idx) ==
    [ time           |-> t(peak_idx),
      note           |-> piano_names[n + 1],
      frequency      |-> piano_freqs[n + 1],
      magnitude      |-> x[peak_idx],
      onset_strength |-> os[peak_idx],
      midi           |-> EventMidi(n),
      note_idx       |-> n ]

\* faulty variant: the magnitude floor is not checked
MagnitudeOk_Unchecked(x, peak_idx, floor) == TRUE

\* if magnitudes[peak_idx] >= min_magnitude
MagnitudeOk(x, peak_idx, floor) == x[peak_idx] >= floor

RECURSIVE NoteEvents(_, _, _, _, _)
\* the events the loop over peaks appends for note n
NoteEvents(n, x, os, pk, floor) ==
    IF pk = << >> THEN << >>
    ELSE (IF MagnitudeOk(x, Head(pk), floor)
          THEN << Event(n, x, os, Head(pk)) >> ELSE << >>)
         \o NoteEvents(n, x, os, Tail(pk), floor)

\* e goes after every element whose time is <= its own
InsertByTime(s, e) ==
    LET n == Cardinality({k \in 1..Len(s) : s[k].time <= e.time})
    IN  SubSeq(s, 1, n) \o << e >> \o SubSeq(s, n + 1, Len(s))

RECURSIVE SortByTime(_)
\* list.sort(key=time): stable, ascending
SortByTime(s) ==
    IF s = << >> THEN << >>
    ELSE InsertByTime(SortByTime(SubSeq(s, 1, Len(s) - 1)), s[Len(s)])

\* faulty variant: e goes before the elements of its own magnitude
InsertByMagnitudeDesc_BeforeEquals(s, e) ==
    LET n == Cardinality({k \in 1..Len(s) : s[k].magnitude > e.magnitude})
    IN  SubSeq(s, 1, n) \o << e >> \o SubSeq(s, n + 1, Len(s))

\* e goes after every element whose magnitude is >= its own
InsertByMagnitudeDesc(s, e) ==
    LET n == Cardinality({k \in 1..Len(s) : s[k].magnitude >= e.magnitude})
    IN  SubSeq(s, 1, n) \o << e >> \o SubSeq(s, n + 1, Len(s))

RECURSIVE SortByMagnitudeDesc(_)
\* list.sort(key=magnitude, reverse=True): stable, descending
SortByMagnitudeDesc(s) ==
    IF s = << >> THEN << >>
    ELSE InsertByMagnitudeDesc(SortByMagnitudeDesc(SubSeq(s, 1, Len(s) - 1)), s[Len(s)])

----------------------------------------------------------------------------
(* detect_note_events: the harmonic pass *)

\* faulty variant: the window includes an event exactly 30 ms later
InWindow_Inclusive(time, current_time) == time - current_time <= 3

\* all_events[window_end]['time'] - current_time < 0.03
InWindow(time, current_time) == time - current_time < 3

RECURSIVE WindowEnd(_, _, _)
\* the inner while loop; indices are the code's (0-based)
WindowEnd(events, current_time, window_end) ==
    IF window_end < Len(events) /\ InWindow(events[window_end + 1].time, current_time)
    THEN WindowEnd(events, current_time, window_end + 1)
    ELSE window_end

MaxMagnitude(w) ==
    CHOOSE m \in {w[k].magnitude : k \in 1..Len(w)} :
        \A k \in 1..Len(w) : w[k].magnitude <= m

\* faulty variant: only events above the largest magnitude are strong
IsStrong_AboveMax(e, max_mag) == e.magnitude > max_mag

\* e['magnitude'] >= max_mag * 0.7
IsStrong(e, max_mag) == 10 * e.magnitude >= 7 * max_mag

\* faulty variant: the cap of 3 is not applied
CapStrong_NoCap(strong) == strong

\* if len(strong_events) > 3: sort by magnitude, descending; keep [:3]
CapStrong(strong) ==
    IF Len(strong) > 3
    THEN SubSeq(SortByMagnitudeDesc(strong), 1, 3)
    ELSE strong

\* what one window contributes to filtered_events
KeepWindow(w) ==
    IF Len(w) > 1
    THEN LET max_mag == MaxMagnitude(w)
         IN  CapStrong(SelectSeq(w, LAMBDA e : IsStrong(e, max_mag)))
    ELSE w

RECURSIVE HarmonicPassFrom(_, _)
\* the whole while loop from scan index k
HarmonicPassFrom(events, k) ==
    IF k >= Len(events) THEN << >>
    ELSE LET window_end == WindowEnd(events, events[k + 1].time, k)
         IN  KeepWindow(SubSeq(events, k + 1, window_end))
             \o HarmonicPassFrom(events, window_end)

HarmonicPass(events) == HarmonicPassFrom(events, 0)

\* del e['note_idx']
WithoutNoteIdx(e) ==
    [ time |-> e.time, note |-> e.note, frequency |-> e.frequency,
      magnitude |-> e.magnitude, onset_strength |-> e.onset_strength,
      midi |-> e.midi ]

----------------------------------------------------------------------------
(* detect_note_events as a state machine *)

\* the frequency axes of the detection run: empty, or one bin per pitch
FreqAxes == { << >>, [k \in 0..(NumNotes - 1) |-> piano_freqs[k + 1]] }

\* the numbers of frames of the detection run
FrameCounts == {0, 1, 2, NumFrames}

\* a channel with n frames: level m at the frames of one strike set, else 0
Channels(n) ==
    { [k \in 0..(n - 1) |-> IF k \in B THEN m ELSE 0] :
        B \in {C \in StrikeSets : C \subseteq 0..(n - 1)}, m \in Mags \ {0} }

IsZero(x) == \A k \in DOMAIN x : x[k] = 0

\* int(min_note_gap / (t[1] - t[0]))
Distance == IntDiv(min_note_gap, dt)

\* the variables of get_piano_frequencies / midi_note_to_name, unused here
PitchIdle ==
    /\ key = 0
    /\ names = << >>
    /\ midi_number = 0
    /\ note_name = << >>

\* the variables of midi_to_json before its first statement
MidiIdle ==
    /\ tracks = << >>
    /\ all_track_events = << >>
    /\ raw_events = << >>
    /\ midi_current_time = 0
    /\ ev = 0
    /\ active_notes = << >>
    /\ data_events = << >>
    /\ data_num_events = 0

\* the variables of detect_note_events before its first statement
DetectIdle ==
    /\ S_all_zero = TRUE
    /\ note_bins = << >>
    /\ note_idx = 0
    /\ magnitudes = << >>
    /\ onset_strength = << >>
    /\ peaks = << >>
    /\ all_events = << >>
    /\ i = 0
    /\ window_events = << >>
    /\ strong_events = << >>
    /\ filtered_events = << >>

Init ==
    /\ pc = "map"
    /\ MidiIdle
    /\ f \in FreqAxes
    /\ nframes \in FrameCounts
    /\ dt \in FramePeriods
    /\ onset_threshold \in OnsetThresholds
    /\ peak_prominence \in PeakProminences
    /\ min_note_gap \in NoteGaps
    /\ min_magnitude \in MinMagnitudes
    /\ DetectIdle
    /\ PitchIdle

\* note_bins = map_notes_to_bins(f, piano_freqs); all_events = []
MapNotes ==
    /\ pc = "map"
    /\ IF map_notes_to_bins_raises(f)
       THEN /\ pc' = "ValueError"
            /\ UNCHANGED note_bins
       ELSE /\ pc' = "detect"
            /\ note_bins' = map_notes_to_bins(f, NumNotes)
    /\ UNCHANGED << midi_state, f, nframes, dt, onset_threshold, peak_prominence, min_note_gap,
                    min_magnitude, S_all_zero, note_idx, magnitudes, onset_strength,
                    peaks, all_events, i, window_events, strong_events,
                    filtered_events, key, names, midi_number, note_name >>

\* one iteration of  for note_idx in range(88)  over the channel x that
\* S[note_bins[note_idx], :] holds
DetectNoteOn(x) ==
    /\ magnitudes' = x
    /\ onset_strength' = OnsetStrength(x)
    /\ S_all_zero' = (S_all_zero /\ IsZero(x))
    /\ IF nframes < 2
       THEN \* t[1] - t[0]: IndexError
            /\ pc' = "IndexError"
            /\ UNCHANGED << midi_state, peaks, all_events, note_idx >>
       ELSE IF find_peaks_raises(Distance)
       THEN /\ pc' = "ValueError"
            /\ UNCHANGED << midi_state, peaks, all_events, note_idx >>
       ELSE /\ peaks' = find_peaks(onset_strength', onset_threshold,
                                   peak_prominence, Distance)
            /\ all_events' = all_events
                   \o NoteEvents(note_idx, x, onset_strength', peaks', min_magnitude)
            /\ note_idx' = note_idx + 1
            /\ pc' = "detect"

DetectNote ==
    /\ pc = "detect"
    /\ note_idx < NumNotes
    /\ \E x \in Channels(nframes) : DetectNoteOn(x)
    /\ UNCHANGED << midi_state, f, nframes, dt, onset_threshold, peak_prominence, min_note_gap,
                    min_magnitude, note_bins, i, window_events, strong_events,
                    filtered_events, key, names, midi_number, note_name >>

\* all_events.sort(key=time); filtered_events = []; i = 0
SortEvents ==
    /\ pc = "detect"
    /\ note_idx >= NumNotes
    /\ all_events' = SortByTime(all_events)
    /\ filtered_events' = << >>
    /\ i' = 0
    /\ pc' = "resolve"
    /\ UNCHANGED << midi_state, f, nframes, dt, onset_threshold, peak_prominence, min_note_gap,
                    min_magnitude, S_all_zero, note_bins, note_idx, magnitudes,
                    onset_strength, peaks, window_events, strong_events,
                    key, names, midi_number, note_name >>

\* one iteration of  while i < len(all_events)
ResolveWindow ==
    /\ pc = "resolve"
    /\ i < Len(all_events)
    /\ LET window_end == WindowEnd(all_events, all_events[i + 1].time, i)
           w == SubSeq(all_events, i + 1, window_end)
       IN  /\ window_events' = w
           /\ strong_events' = IF Len(w) > 1 THEN KeepWindow(w) ELSE strong_events
           /\ filtered_events' = filtered_events \o KeepWindow(w)
           /\ i' = window_end
    /\ UNCHANGED << midi_state, pc, f, nframes, dt, onset_threshold, peak_prominence,
                    min_note_gap, min_magnitude, S_all_zero, note_bins, note_idx,
                    magnitudes, onset_strength, peaks, all_events,
                    key, names, midi_number, note_name >>

\* for e in filtered_events: del e['note_idx'];  return filtered_events
RemoveNoteIdx ==
    /\ pc = "resolve"
    /\ i >= Len(all_events)
    /\ filtered_events' = [k \in 1..Len(filtered_events) |->
                              WithoutNoteIdx(filtered_events[k])]
    /\ pc' = "done"
    /\ UNCHANGED << midi_state, f, nframes, dt, onset_threshold, peak_prominence, min_note_gap,
                    min_magnitude, S_all_zero, note_bins, note_idx, magnitudes,
                    onset_strength, peaks, all_events, i, window_events,
                    strong_events, key, names, midi_number, note_name >>

Next ==
    \/ MapNotes
    \/ DetectNote
    \/ SortEvents
    \/ ResolveWindow
    \/ RemoveNoteIdx

Spec == Init /\ [][Next]_vars

----------------------------------------------------------------------------
(* Properties of the list detect_note_events returns *)

Returned == pc = "done"

Raised == pc \in {"ValueError", "IndexError"}

\* C1: the returned event list is in non-decreasing time order
\* (violated: the top-3 branch emits a window's events by magnitude)
C1_TimeSorted ==
    Returned =>
        \A k \in 1..(Len(filtered_events) - 1) :
            filtered_events[k].time <= filtered_events[k + 1].time

\* the sets of positions of a list
Positions(s) == SUBSET (1..Len(s))

\* the positions of G hold events whose times lie within 30 ms of each other
Within30ms(s, G) == \A j, k \in G : Abs(s[j].time - s[k].time) < 3

\* C2 as claimed: any events of the returned list within 30 ms of each
\* other number at most 3, and each has at least 0.7 of the largest
\* magnitude among them (violated: events of two scan windows can lie
\* within 30 ms of each other)
C2_AnySpanCapped ==
    Returned =>
        \A G \in Positions(filtered_events) :
            Within30ms(filtered_events, G) =>
                /\ Cardinality(G) <= 3
                /\ \A j, k \in G :
                       10 * filtered_events[j].magnitude
                           >= 7 * filtered_events[k].magnitude

\* what the last scan window added to filtered_events
LastKept == IF Len(window_events) > 1 THEN strong_events ELSE window_events

\* C2 as amended: each window formed by the forward scan contributes at
\* most 3 events to the output, each with at least 0.7 of the largest
\* magnitude in that window
C2_ScanWindowCapped ==
    (pc = "resolve" /\ window_events # << >>) =>
        /\ Len(LastKept) <= 3
        /\ Len(LastKept) <= Len(filtered_events)
        /\ LastKept = SubSeq(filtered_events,
                             Len(filtered_events) - Len(LastKept) + 1,
                             Len(filtered_events))
        /\ \A j \in 1..Len(LastKept) : \A k \in 1..Len(window_events) :
               10 * LastKept[j].magnitude >= 7 * window_events[k].magnitude

\* C2 witness: a window of more than 3 strong events was cut to 3
C2_Witness ==
    /\ pc = "resolve"
    /\ Len(window_events) > 3
    /\ Len(strong_events) = 3
    /\ \A k \in 1..Len(window_events) :
           10 * window_events[k].magnitude >= 7 * MaxMagnitude(window_events)

\* C3 as claimed: the harmonic pass applied to its own output returns the
\* same events (violated: a kept event can open a window that reaches an
\* event the first pass had in another window)
C3_Idempotent ==
    Returned => HarmonicPass(filtered_events) = filtered_events

\* raw events of different times are never less than 30 ms apart (so with
\* every frame period of at least 30 ms): a window holds one frame's events
FramesApart ==
    \A j, k \in 1..Len(all_events) :
        (all_events[j].time # all_events[k].time) =>
            Abs(all_events[j].time - all_events[k].time) >= 3

\* C3 as amended: the harmonic pass is idempotent on raw event lists whose
\* events of different times are at least 30 ms apart
C3_IdempotentWideFrames ==
    (Returned /\ FramesApart) => HarmonicPass(filtered_events) = filtered_events

\* C3 witness: with frames 30 ms apart the pass removed an event and kept
\* events of several windows
C3_Witness ==
    /\ Returned
    /\ FramesApart
    /\ Len(filtered_events) < Len(all_events)
    /\ \E j, k \in 1..Len(filtered_events) :
           filtered_events[j].time # filtered_events[k].time

\* C4: two returned events of the same pitch are at least min_note_gap
\* apart, whenever min_note_gap is at least one frame period
C4_SamePitchGap ==
    (Returned /\ min_note_gap >= dt) =>
        \A j, k \in 1..Len(filtered_events) :
            (j # k /\ filtered_events[j].midi = filtered_events[k].midi) =>
                Abs(filtered_events[j].time - filtered_events[k].time)
                    >= min_note_gap

\* the peak detector has been called (or the call was reached)
PeakDetectorCalled ==
    /\ Size(f) > 0
    /\ nframes >= 2
    /\ pc # "map"
    /\ (note_idx >= 1 \/ Raised)

\* C5: the distance passed to the peak detector is
\* max(1, round(min_note_gap / frame period)) and the call does not fail
C5_DistanceClamped ==
    PeakDetectorCalled =>
        /\ ~Raised
        /\ Distance = Max2(1, RoundDiv(min_note_gap, dt))

\* C6: on an empty spectrogram (no frames, or no frequency bins) nothing
\* is raised and the returned list is empty
C6_EmptySpectrogram ==
    (nframes = 0 \/ Size(f) = 0) =>
        /\ ~Raised
        /\ (Returned => filtered_events = << >>)

\* an event of the returned list is a raw event, but for note_idx
FromRaw(e) ==
    \E k \in 1..Len(all_events) :
        /\ e.time = all_events[k].time
        /\ e.magnitude = all_events[k].magnitude
        /\ e.midi = all_events[k].midi
        /\ e.onset_strength = all_events[k].onset_strength

\* C8: every event of the output has magnitude >= min_magnitude, its
\* magnitude is its channel's value at its own frame and its time is that
\* frame's time, and the later steps leave magnitude and time alone
C8_MagnitudeFloor ==
    /\ \A k \in 1..Len(all_events) : all_events[k].magnitude >= min_magnitude
    /\ \A k \in 1..Len(filtered_events) :
           /\ filtered_events[k].magnitude >= min_magnitude
           /\ FromRaw(filtered_events[k])
    /\ (pc = "detect" /\ note_idx >= 1) =>
           \A k \in 1..Len(all_events) :
               (all_events[k].note_idx = note_idx - 1) =>
                   \E p \in 0..(nframes - 1) :
                       /\ all_events[k].time = p * dt
                       /\ all_events[k].magnitude = magnitudes[p]

\* C8 witness: a list was returned after the floor rejected a peak of the
\* last channel and accepted peaks of others
C8_Witness ==
    /\ Returned
    /\ filtered_events # << >>
    /\ \E k \in 1..Len(peaks) : magnitudes[peaks[k]] < min_magnitude

\* C9: on an all-zero grid with at least 2 frames and a non-empty
\* frequency axis every onset-strength series is zero, nothing is raised
\* and the returned list is empty, for every configuration
C9_AllZeroGrid ==
    (S_all_zero /\ nframes >= 2 /\ Size(f) > 0) =>
        /\ ~Raised
        /\ IsZero(onset_strength)
        /\ (Returned => filtered_events = << >>)

\* the part of C9 the code keeps: the same, for configurations whose
\* distance int(min_note_gap / frame period) is at least 1
AllZeroGridValidDistance ==
    (S_all_zero /\ nframes >= 2 /\ Size(f) > 0 /\ Distance >= 1) =>
        /\ ~Raised
        /\ IsZero(onset_strength)
        /\ (Returned => filtered_events = << >>)

----------------------------------------------------------------------------
(* One channel through the onset-strength and peak-detection statements,  *)
(* for every magnitude series of up to NumFrames frames                    *)

InitChannel ==
    /\ pc = "onset"
    /\ MidiIdle
    /\ nframes \in 0..NumFrames
    /\ magnitudes \in [0..(nframes - 1) -> Mags]
    /\ onset_threshold \in ChannelHeights
    /\ peak_prominence \in ChannelProminences
    /\ dt \in ChannelPeriods
    /\ min_note_gap \in ChannelGaps
    /\ min_magnitude \in MinMagnitudes
    /\ f = << >>
    /\ S_all_zero = IsZero(magnitudes)
    /\ note_bins = << >>
    /\ note_idx = 0
    /\ onset_strength = << >>
    /\ peaks = << >>
    /\ all_events = << >>
    /\ i = 0
    /\ window_events = << >>
    /\ strong_events = << >>
    /\ filtered_events = << >>
    /\ PitchIdle

\* onset_strength = np.maximum(np.diff(magnitudes, prepend=0), 0)
ComputeOnset ==
    /\ pc = "onset"
    /\ onset_strength' = OnsetStrength(magnitudes)
    /\ pc' = "peaks"
    /\ UNCHANGED << midi_state, f, nframes, dt, onset_threshold, peak_prominence, min_note_gap,
                    min_magnitude, S_all_zero, note_bins, note_idx, magnitudes,
                    peaks, all_events, i, window_events, strong_events,
                    filtered_events, key, names, midi_number, note_name >>

\* peaks, properties = find_peaks(onset_strength, height, prominence, distance)
CallFindPeaks ==
    /\ pc = "peaks"
    /\ IF nframes < 2
       THEN /\ pc' = "IndexError"
            /\ UNCHANGED peaks
       ELSE IF find_peaks_raises(Distance)
       THEN /\ pc' = "ValueError"
            /\ UNCHANGED peaks
       ELSE /\ peaks' = find_peaks(onset_strength, onset_threshold,
                                   peak_prominence, Distance)
            /\ pc' = "found"
    /\ UNCHANGED << midi_state, f, nframes, dt, onset_threshold, peak_prominence, min_note_gap,
                    min_magnitude, S_all_zero, note_bins, note_idx, magnitudes,
                    onset_strength, all_events, i, window_events, strong_events,
                    filtered_events, key, names, midi_number, note_name >>

NextChannel ==
    \/ ComputeOnset
    \/ CallFindPeaks

SpecChannel == InitChannel /\ [][NextChannel]_vars

OnsetComputed == pc \in {"peaks", "found", "IndexError", "ValueError"}

\* C7 as claimed: onset strength is max(0, magnitude[k] - magnitude[k-1])
\* for k >= 1 and exactly 0 at k = 0 (violated when magnitude[0] > 0)
C7_FirstOnsetZero ==
    (OnsetComputed /\ nframes >= 1) =>
        /\ onset_strength[0] = 0
        /\ \A k \in 1..(nframes - 1) :
               onset_strength[k] = Max2(0, magnitudes[k] - magnitudes[k - 1])

\* C7 as amended: onset strength is max(0, magnitude[k] - magnitude[k-1])
\* for k >= 1 and max(0, magnitude[0] - 0) = magnitude[0] at k = 0: frame 0
\* is differenced against a prepended zero
C7_FirstOnsetFromZero ==
    (OnsetComputed /\ nframes >= 1) =>
        /\ DOMAIN onset_strength = 0..(nframes - 1)
        /\ onset_strength[0] = Max2(0, magnitudes[0])
        /\ \A k \in 1..(nframes - 1) :
               onset_strength[k] = Max2(0, magnitudes[k] - magnitudes[k - 1])

\* C7 witness: a series that starts above zero, falls and rises
C7_Witness ==
    /\ OnsetComputed
    /\ nframes >= 3
    /\ magnitudes[0] > 0
    /\ magnitudes[1] < magnitudes[0]
    /\ magnitudes[2] > magnitudes[1]
    /\ onset_strength[0] > 0

----------------------------------------------------------------------------
(* get_piano_frequencies and midi_note_to_name as a state machine *)

InitPitch ==
    /\ pc = "names"
    /\ MidiIdle
    /\ key = 1
    /\ names = << >>
    /\ midi_number \in 0..127
    /\ note_name = << >>
    /\ f = << >>
    /\ nframes = 0
    /\ dt = 1
    /\ onset_threshold = 0
    /\ peak_prominence = 0
    /\ min_note_gap = 0
    /\ min_magnitude = 0
    /\ DetectIdle

\* one iteration of  for key in range(1, 89)
PianoKey ==
    /\ pc = "names"
    /\ key < 89
    /\ names' = Append(names, PianoKeyName(key))
    /\ key' = key + 1
    /\ UNCHANGED << midi_state, pc, f, nframes, dt, onset_threshold, peak_prominence,
                    min_note_gap, min_magnitude, S_all_zero, note_bins, note_idx,
                    magnitudes, onset_strength, peaks, all_events, i,
                    window_events, strong_events, filtered_events,
                    midi_number, note_name >>

\* note_name = midi_note_to_name(msg.note)
MidiNoteName ==
    /\ pc = "names"
    /\ note_name = << >>
    /\ note_name' = midi_note_to_name(midi_number)
    /\ UNCHANGED << midi_state, pc, f, nframes, dt, onset_threshold, peak_prominence,
                    min_note_gap, min_magnitude, S_all_zero, note_bins, note_idx,
                    magnitudes, onset_strength, peaks, all_events, i,
                    window_events, strong_events, filtered_events,
                    key, names, midi_number >>

NextPitch ==
    \/ PianoKey
    \/ MidiNoteName

SpecPitch == InitPitch /\ [][NextPitch]_vars

\* the 12 tones from C, by name
ChromaticFromC ==
    << "C", "C#", "D", "D#", "E", "F", "F#", "G", "G#", "A", "A#", "B" >>

ToneIndex(tone) == CHOOSE k \in 1..12 : ChromaticFromC[k] = tone

\* name b is the chromatic successor of name a: the next tone, and the
\* octave one higher exactly at the step from B to C
ChromaticStep(a, b) ==
    IF a[1] = "B"
    THEN b = << "C", a[2] + 1 >>
    ELSE b = << ChromaticFromC[ToneIndex(a[1]) + 1], a[2] >>

\* C10: pitch index n has midi number n + 21 in 21..108 and a name that
\* follows the chromatic sequence from A0 (C1 at n = 3, C8 at n = 87),
\* which is the name midi_note_to_name gives n + 21
C10_PitchNames ==
    /\ Len(names) <= 88
    /\ \A n \in 0..(Len(names) - 1) :
           /\ EventMidi(n) = n + 21
           /\ EventMidi(n) \in 21..108
           /\ names[n + 1] = midi_note_to_name(EventMidi(n))
           /\ names[n + 1] = piano_names[n + 1]
    /\ \A n \in 1..(Len(names) - 1) : ChromaticStep(names[n], names[n + 1])
    /\ (Len(names) >= 1) => (names[1] = << "A", 0 >>)
    /\ (Len(names) >= 4) => (names[4] = << "C", 1 >>)
    /\ (Len(names) >= 88) => (names[88] = << "C", 8 >>)
    /\ (note_name # << >> /\ midi_number - 21 \in 0..(Len(names) - 1)) =>
           note_name = names[midi_number - 21 + 1]

\* C10 witness: the table is complete and the MIDI side named note 108
C10_Witness ==
    /\ pc = "names"
    /\ key = 89
    /\ Len(names) = 88
    /\ midi_number = 108
    /\ note_name = << "C", 8 >>

----------------------------------------------------------------------------
(* map_notes_to_bins as a state machine, for every frequency axis of up to *)
(* MaxBins bins over AxisFreqs (in any order, repeats included)            *)

InitBins ==
    /\ pc = "bins"
    /\ MidiIdle
    /\ \E n \in 0..MaxBins : f \in [0..(n - 1) -> AxisFreqs]
    /\ nframes = 0
    /\ dt = 1
    /\ onset_threshold = 0
    /\ peak_prominence = 0
    /\ min_note_gap = 0
    /\ min_magnitude = 0
    /\ DetectIdle
    /\ PitchIdle

\* one iteration of  for pf in piano_freqs ; note_idx is the position of pf
MapPitch ==
    /\ pc = "bins"
    /\ note_idx < 88
    /\ IF map_notes_to_bins_raises(f)
       THEN /\ pc' = "ValueError"
            /\ UNCHANGED << midi_state, note_bins, note_idx >>
       ELSE /\ note_bins' = [p \in 0..note_idx |->
                                IF p < note_idx THEN note_bins[p]
                                ELSE NearestBin(f, piano_freqs[note_idx + 1])]
            /\ note_idx' = note_idx + 1
            /\ pc' = "bins"
    /\ UNCHANGED << midi_state, f, nframes, dt, onset_threshold, peak_prominence, min_note_gap,
                    min_magnitude, S_all_zero, magnitudes, onset_strength, peaks,
                    all_events, i, window_events, strong_events, filtered_events,
                    key, names, midi_number, note_name >>

\* return np.array(bins)
ReturnBins ==
    /\ pc = "bins"
    /\ note_idx >= 88
    /\ pc' = "mapped"
    /\ UNCHANGED << midi_state, f, nframes, dt, onset_threshold, peak_prominence, min_note_gap,
                    min_magnitude, S_all_zero, note_bins, note_idx, magnitudes,
                    onset_strength, peaks, all_events, i, window_events,
                    strong_events, filtered_events, key, names, midi_number,
                    note_name >>

NextBins ==
    \/ MapPitch
    \/ ReturnBins

SpecBins == InitBins /\ [][NextBins]_vars

\* how far bin k of the axis is from pitch p
BinError(k, p) == Abs(f[k] - piano_freqs[p + 1])

\* pitch p has two different bins equally near, and none nearer
HasTie(p) ==
    \E j, k \in DOMAIN f :
        /\ j # k
        /\ BinError(j, p) = BinError(k, p)
        /\ \A m \in DOMAIN f : BinError(j, p) <= BinError(m, p)

\* C11: on a non-empty axis every pitch gets a bin whose frequency is as
\* near to the pitch as any, the lowest index among equally near bins, and
\* a pitch below (above) every bin gets a bin of the least (greatest)
\* frequency
C11_NearestBin ==
    (Size(f) > 0 /\ pc \in {"bins", "mapped"}) =>
        /\ DOMAIN note_bins = 0..(note_idx - 1)
        /\ \A p \in DOMAIN note_bins :
               /\ note_bins[p] \in DOMAIN f
               /\ \A k \in DOMAIN f : BinError(note_bins[p], p) <= BinError(k, p)
               /\ \A k \in DOMAIN f :
                      (k < note_bins[p]) => BinError(k, p) > BinError(note_bins[p], p)
               /\ (\A k \in DOMAIN f : piano_freqs[p + 1] < f[k]) =>
                      (\A k \in DOMAIN f : f[note_bins[p]] <= f[k])
               /\ (\A k \in DOMAIN f : piano_freqs[p + 1] > f[k]) =>
                      (\A k \in DOMAIN f : f[note_bins[p]] >= f[k])

\* C11 witness: all 88 pitches are mapped, one had equally near bins and
\* took the lower, one lies below every bin and one above every bin
C11_Witness ==
    /\ pc = "mapped"
    /\ Size(f) > 1
    /\ \E p \in DOMAIN note_bins :
           HasTie(p) /\ \E k \in DOMAIN f :
               k > note_bins[p] /\ BinError(k, p) = BinError(note_bins[p], p)
    /\ \E p \in DOMAIN note_bins : \A k \in DOMAIN f : piano_freqs[p + 1] < f[k]
    /\ \E p \in DOMAIN note_bins : \A k \in DOMAIN f : piano_freqs[p + 1] > f[k]

----------------------------------------------------------------------------
(* What one scan window keeps *)

\* the positions of the window's strong events
StrongPositions(w) ==
    {k \in 1..Len(w) :
        \A j \in 1..Len(w) : 10 * w[k].magnitude >= 7 * w[j].magnitude}

\* how many strong events of the window come before position k when the
\* greater magnitude goes first and equal magnitudes keep the input order
StrongRank(w, k) ==
    Cardinality({j \in StrongPositions(w) :
        \/ w[j].magnitude > w[k].magnitude
        \/ (w[j].magnitude = w[k].magnitude /\ j < k)})

\* the events of w at the positions P, in input order
RECURSIVE Restrict(_, _, _)
Restrict(w, P, k) ==
    IF k > Len(w) THEN << >>
    ELSE (IF k \in P THEN << w[k] >> ELSE << >>) \o Restrict(w, P, k + 1)

\* what the last window added is the end of filtered_events
LastKeptIsTail ==
    /\ Len(LastKept) <= Len(filtered_events)
    /\ LastKept = SubSeq(filtered_events,
                         Len(filtered_events) - Len(LastKept) + 1,
                         Len(filtered_events))

----------------------------------------------------------------------------
(* What the peak-detection call accepts, stated over sets of indices *)

\* the indices strictly greater than both neighbours
StrictCandidates(x) ==
    {k \in 1..(Size(x) - 2) : x[k] > x[k - 1] /\ x[k] > x[k + 1]}

\* the middle index (rounded down) of every run lo..hi of equal values that
\* is higher than the element before it and the element after it
FlatCandidates(x) ==
    {(lo + hi) \div 2 : lo \in 1..(Size(x) - 2), hi \in 1..(Size(x) - 2)} \cap
    {k \in 1..(Size(x) - 2) :
        \E lo \in 1..k, hi \in k..(Size(x) - 2) :
            /\ k = (lo + hi) \div 2
            /\ \A j \in lo..hi : x[j] = x[k]
            /\ x[lo - 1] < x[k]
            /\ x[hi + 1] < x[k]}

\* the lowest value between index k and the nearest higher element on the
\* side given by step (-1: left, 1: right), or the end of the series
BaseOn(x, k, step) ==
    LET higher == {j \in DOMAIN x : (j - k) * step > 0 /\ x[j] > x[k]}
        reach  == {j \in DOMAIN x :
                      /\ (j - k) * step >= 0
                      /\ \A h \in higher : (h - j) * step > 0}
    IN  CHOOSE v \in {x[j] : j \in reach} : \A j \in reach : v <= x[j]

ProminenceOf(x, k) == x[k] - Max2(BaseOn(x, k, -1), BaseOn(x, k, 1))

\* the highest peak of P; among equally high ones the last
Highest(x, P) ==
    CHOOSE k \in P : \A j \in P : x[j] < x[k] \/ (x[j] = x[k] /\ j <= k)

RECURSIVE GreedyByDistance(_, _, _)
\* keep the highest remaining peak, remove the others within the distance
\* of it, and go on with what remains
GreedyByDistance(x, P, distance) ==
    IF P = {} THEN {}
    ELSE LET top == Highest(x, P)
         IN  {top} \cup GreedyByDistance(x,
                 {k \in P : Abs(k - top) >= distance}, distance)

Accepted == {peaks[k] : k \in 1..Len(peaks)}

\* the candidates that pass the height and the prominence filter
PassBoth(x, C) ==
    {k \in C : x[k] >= onset_threshold /\ ProminenceOf(x, k) >= peak_prominence}

\* C13 as claimed: the accepted peaks are the indices strictly greater than
\* both neighbours, filtered by height, then by prominence, and only then
\* thinned by distance; so a candidate that passes both filters is left
\* out only for an accepted peak within the distance (violated: the
\* distance selection runs before the prominence filter, and the middle of
\* a flat peak is a candidate too)
C13_ProminenceBeforeDistance ==
    (pc = "found") =>
        /\ Accepted = GreedyByDistance(onset_strength,
               PassBoth(onset_strength, StrictCandidates(onset_strength)),
               Distance)
        /\ \A q \in PassBoth(onset_strength, StrictCandidates(onset_strength)) :
               (q \notin Accepted) =>
                   \E p \in Accepted : Abs(p - q) < Distance

\* C13 as amended: the candidates are the indices greater than both
\* neighbours, a flat peak counting by its middle index; they are filtered
\* by height, then thinned by distance (the highest remaining peak is kept
\* and the others within the distance removed, repeatedly), and only then
\* filtered by prominence; the accepted peaks are in ascending order
C13_DistanceBeforeProminence ==
    (pc = "found") =>
        /\ Accepted =
               {k \in GreedyByDistance(onset_strength,
                          {c \in FlatCandidates(onset_strength) :
                              onset_strength[c] >= onset_threshold},
                          Distance) :
                   ProminenceOf(onset_strength, k) >= peak_prominence}
        /\ \A k \in 1..(Len(peaks) - 1) : peaks[k] < peaks[k + 1]

\* C13 witness: a candidate that passes both filters is left out although
\* no accepted peak lies within the distance: the higher peak that removed
\* it failed the prominence filter afterwards
C13_Witness ==
    /\ pc = "found"
    /\ \E q \in PassBoth(onset_strength, StrictCandidates(onset_strength)) :
           /\ q \notin Accepted
           /\ \A p \in Accepted : Abs(p - q) >= Distance
           /\ \E h \in StrictCandidates(onset_strength) :
                  /\ Abs(h - q) < Distance
                  /\ onset_strength[h] > onset_strength[q]
                  /\ ProminenceOf(onset_strength, h) < peak_prominence

----------------------------------------------------------------------------
(* midi_to_json (midi_extractor.py) *)

\* the largest number of note messages of a file
MaxMsgs == 3

\* midi.ticks_per_beat of the file
ticks_per_beat == 480

\* the default tempo in microseconds per beat; the files hold no set_tempo
tempo == 500000

\* (note, channel) of the messages
NoteChannels == {<< 60, 0 >>, << 61, 0 >>, << 60, 1 >>}

\* (type, velocity) of the messages
TypeVelocities ==
    {<< "note_on", 100 >>, << "note_on", 0 >>, << "note_off", 64 >>}

\* msg.time: ticks since the previous message of the track
DeltaTicks == {0, 1}

\* how many of the messages are on the second track
SecondTrackSizes == {0, 1}

Messages ==
    {[type |-> tv[1], note |-> nc[1], velocity |-> tv[2], channel |-> nc[2],
      time |-> d] : tv \in TypeVelocities, nc \in NoteChannels, d \in DeltaTicks}

\* faulty variant: a note_on of velocity 0 starts a note
IsOn_AnyVelocity(msg) == msg.type = "note_on"

\* is_on = msg.type == 'note_on' and msg.velocity > 0
IsOn(msg) == msg.type = "note_on" /\ msg.velocity > 0

RECURSIVE CollectTrack(_, _, _, _)
\* the markers of the messages m.. of a track, track_ticks ticks in
CollectTrack(track, track_idx, m, track_ticks) ==
    IF m > Len(track) THEN << >>
    ELSE LET msg == track[m]
             ticks == track_ticks + msg.time
         IN  << [ticks     |-> ticks,
                 type      |-> IF IsOn(msg) THEN "on" ELSE "off",
                 note      |-> msg.note,
                 note_name |-> midi_note_to_name(msg.note),
                 velocity  |-> msg.velocity,
                 channel   |-> msg.channel,
                 track     |-> track_idx] >>
             \o CollectTrack(track, track_idx, m + 1, ticks)

RECURSIVE CollectTracks(_, _)
\* for track_idx, track in enumerate(midi.tracks), from the n-th track on
CollectTracks(trs, n) ==
    IF n > Len(trs) THEN << >>
    ELSE CollectTrack(trs[n], n - 1, 1, 0) \o CollectTracks(trs, n + 1)

\* e goes after every element whose ticks are <= its own
InsertByTicks(s, e) ==
    LET n == Cardinality({p \in 1..Len(s) : s[p].ticks <= e.ticks})
    IN  SubSeq(s, 1, n) \o << e >> \o SubSeq(s, n + 1, Len(s))

RECURSIVE SortByTicks(_)
\* all_track_events.sort(key=ticks): stable, ascending
SortByTicks(s) ==
    IF s = << >> THEN << >>
    ELSE InsertByTicks(SortByTicks(SubSeq(s, 1, Len(s) - 1)), s[Len(s)])

\* round(current_time, 6) in microseconds
Round6(now) == RoundDiv(now, ticks_per_beat)

RECURSIVE ConvertTicksFrom(_, _, _, _, _)
\* the second pass from marker m on: raw_events and current_time
ConvertTicksFrom(markers, m, last_tick, now, raw) ==
    IF m > Len(markers) THEN [raw_events |-> raw, current_time |-> now]
    ELSE LET event == markers[m]
             tick_delta == event.ticks - last_tick
             later == IF tick_delta > 0 THEN now + tick_delta * tempo ELSE now
         IN  ConvertTicksFrom(markers, m + 1, event.ticks, later,
                 Append(raw, [time      |-> Round6(later),
                              type      |-> event.type,
                              note      |-> event.note,
                              note_name |-> event.note_name,
                              velocity  |-> event.velocity,
                              channel   |-> event.channel]))

\* faulty variant: the key leaves out the channel
key_for_NoteOnly(n, ch) == << n >>

\* f"{n}:{ch}"
key_for(n, ch) == << n, ch >>

\* the position of key k in active_notes, 0 when it is not there
Slot(active, k) ==
    IF \E p \in 1..Len(active) : active[p].k = k
    THEN CHOOSE p \in 1..Len(active) : active[p].k = k
    ELSE 0

\* active_notes.setdefault(k, []).append(ev)
PushStart(active, k, start) ==
    IF Slot(active, k) = 0
    THEN Append(active, [k |-> k, starts |-> << start >>])
    ELSE [active EXCEPT ![Slot(active, k)].starts = Append(@, start)]

\* active_notes.get(k), the empty list standing for None as well
Starts(active, k) ==
    IF Slot(active, k) = 0 THEN << >> ELSE active[Slot(active, k)].starts

\* the event of a note that started at start
NoteEvent(start, duration) ==
    [time        |-> start.time,
     midi_number |-> start.note,
     note_name   |-> start.note_name,
     velocity    |-> start.velocity,
     duration    |-> duration,
     channel     |-> start.channel]

\* round(ev["time"] - start["time"], 6), 0.0 when negative
PairedDuration(off, start) ==
    LET duration == off.time - start.time
    IN  IF duration < 0 THEN 0 ELSE duration

\* round(max(0.0, current_time - start["time"]), 6)
OpenDuration(now, start) ==
    Round6(Max2(0, now - start.time * ticks_per_beat))

RECURSIVE CloseStarts(_, _, _)
\* for start in starts, from the n-th start on
CloseStarts(starts, n, now) ==
    IF n > Len(starts) THEN << >>
    ELSE << NoteEvent(starts[n], OpenDuration(now, starts[n])) >>
         \o CloseStarts(starts, n + 1, now)

RECURSIVE CloseActiveFrom(_, _, _)
\* for k, starts in active_notes.items(), from the n-th key on
CloseActiveFrom(active, n, now) ==
    IF n > Len(active) THEN << >>
    ELSE CloseStarts(active[n].starts, 1, now)
         \o CloseActiveFrom(active, n + 1, now)

InitMidi ==
    /\ pc = "collect"
    /\ \E n \in 0..MaxMsgs : \E n2 \in SecondTrackSizes :
           /\ n2 <= n
           /\ tracks \in {<< first, second >> :
                            first \in [1..(n - n2) -> Messages],
                            second \in [1..n2 -> Messages]}
    /\ all_track_events = << >>
    /\ raw_events = << >>
    /\ midi_current_time = 0
    /\ ev = 0
    /\ active_notes = << >>
    /\ data_events = << >>
    /\ data_num_events = 0
    /\ f = << >>
    /\ nframes = 0
    /\ dt = 1
    /\ onset_threshold = 0
    /\ peak_prominence = 0
    /\ min_note_gap = 0
    /\ min_magnitude = 0
    /\ DetectIdle
    /\ PitchIdle

\* the first pass and the sort by ticks
CollectMessages ==
    /\ pc = "collect"
    /\ all_track_events' = SortByTicks(CollectTracks(tracks, 1))
    /\ pc' = "convert"
    /\ UNCHANGED << f, nframes, dt, onset_threshold, peak_prominence,
                    min_note_gap, min_magnitude, S_all_zero, note_bins, note_idx,
                    magnitudes, onset_strength, peaks, all_events, i,
                    window_events, strong_events, filtered_events, key, names,
                    midi_number, note_name, tracks, raw_events,
                    midi_current_time, ev, active_notes, data_events,
                    data_num_events >>

\* the second pass: ticks to seconds
ConvertTicks ==
    /\ pc = "convert"
    /\ LET second == ConvertTicksFrom(all_track_events, 1, 0, 0, << >>)
       IN  /\ raw_events' = second.raw_events
           /\ midi_current_time' = second.current_time
    /\ ev' = 1
    /\ pc' = "pair"
    /\ UNCHANGED << f, nframes, dt, onset_threshold, peak_prominence,
                    min_note_gap, min_magnitude, S_all_zero, note_bins, note_idx,
                    magnitudes, onset_strength, peaks, all_events, i,
                    window_events, strong_events, filtered_events, key, names,
                    midi_number, note_name, tracks, all_track_events,
                    active_notes, data_events, data_num_events >>

\* one iteration of  for ev in raw_events  (third pass)
PairNote ==
    /\ pc = "pair"
    /\ ev <= Len(raw_events)
    /\ LET marker == raw_events[ev]
           k == key_for(marker.note, marker.channel)
           starts == Starts(active_notes, k)
       IN  IF marker.type = "on"
           THEN /\ active_notes' = PushStart(active_notes, k, marker)
                /\ UNCHANGED data_events
           ELSE IF starts # << >>
           THEN /\ active_notes' =
                       [active_notes EXCEPT ![Slot(active_notes, k)].starts = Tail(@)]
                /\ data_events' = Append(data_events,
                       NoteEvent(Head(starts), PairedDuration(marker, Head(starts))))
           ELSE UNCHANGED << active_notes, data_events >>
    /\ ev' = ev + 1
    /\ UNCHANGED << pc, f, nframes, dt, onset_threshold, peak_prominence,
                    min_note_gap, min_magnitude, S_all_zero, note_bins, note_idx,
                    magnitudes, onset_strength, peaks, all_events, i,
                    window_events, strong_events, filtered_events, key, names,
                    midi_number, note_name, tracks, all_track_events,
                    raw_events, midi_current_time, data_num_events >>

\* the notes still active are closed at the end of the file, the events
\* are sorted by time and counted
CloseActive ==
    /\ pc = "pair"
    /\ ev > Len(raw_events)
    /\ data_events' = SortByTime(data_events
                          \o CloseActiveFrom(active_notes, 1, midi_current_time))
    /\ data_num_events' = Len(data_events')
    /\ pc' = "written"
    /\ UNCHANGED << f, nframes, dt, onset_threshold, peak_prominence,
                    min_note_gap, min_magnitude, S_all_zero, note_bins, note_idx,
                    magnitudes, onset_strength, peaks, all_events, i,
                    window_events, strong_events, filtered_events, key, names,
                    midi_number, note_name, tracks, all_track_events,
                    raw_events, midi_current_time, ev, active_notes >>

NextMidi ==
    \/ CollectMessages
    \/ ConvertTicks
    \/ PairNote
    \/ CloseActive

SpecMidi == InitMidi /\ [][NextMidi]_vars

----------------------------------------------------------------------------
(* The pairing of midi_to_json, stated by counting markers *)

KeyOf(marker) == << marker.note, marker.channel >>

\* the note-ons of key k among the first n markers
OnsOf(k, n) ==
    {p \in 1..n : raw_events[p].type = "on" /\ KeyOf(raw_events[p]) = k}

RECURSIVE MatchedOf(_, _)
\* how many note-ons of key k the first n markers have closed: a note-off
\* of k closes one when more note-ons of k came before it than are closed
MatchedOf(k, n) ==
    IF n = 0 THEN 0
    ELSE LET before == MatchedOf(k, n - 1)
         IN  IF /\ raw_events[n].type = "off"
                /\ KeyOf(raw_events[n]) = k
                /\ Cardinality(OnsOf(k, n - 1)) > before
             THEN before + 1
             ELSE before

\* the position of the j-th note-on of key k
NthOn(k, j) ==
    CHOOSE p \in 1..Len(raw_events) :
        p \in OnsOf(k, p) /\ Cardinality(OnsOf(k, p)) = j

\* marker n is a note-off that closes a note-on
Closes(n) ==
    MatchedOf(KeyOf(raw_events[n]), n) > MatchedOf(KeyOf(raw_events[n]), n - 1)

\* the note-on that the closing note-off n is paired with: the earliest
\* one of its key not closed before
PartnerOf(n) ==
    raw_events[NthOn(KeyOf(raw_events[n]), MatchedOf(KeyOf(raw_events[n]), n))]

RECURSIVE PairedUpTo(_)
\* one event for every closing note-off among the first n markers
PairedUpTo(n) ==
    IF n = 0 THEN << >>
    ELSE PairedUpTo(n - 1) \o
         (IF Closes(n)
          THEN << [time        |-> PartnerOf(n).time,
                   midi_number |-> PartnerOf(n).note,
                   note_name   |-> PartnerOf(n).note_name,
                   velocity    |-> PartnerOf(n).velocity,
                   duration    |-> raw_events[n].time - PartnerOf(n).time,
                   channel     |-> PartnerOf(n).channel] >>
          ELSE << >>)

\* the note-ons of key k left open by the first n markers, earliest first
OpenOf(k, n) ==
    [j \in 1..(Cardinality(OnsOf(k, n)) - MatchedOf(k, n)) |->
        raw_events[NthOn(k, MatchedOf(k, n) + j)]]

\* the queue that active_notes holds for key k
QueueOf(k) ==
    IF \E p \in 1..Len(active_notes) : active_notes[p].k = k
    THEN (CHOOSE e \in {active_notes[p] : p \in 1..Len(active_notes)} :
              e.k = k).starts
    ELSE << >>

\* a message that ends a note: a note_off, or a note_on of velocity 0
EndsNote(msg) == msg.type = "note_off" \/ msg.velocity = 0

\* the markers of track n (counted from 1), in order
MarkersOfTrack(n) ==
    Restrict(all_track_events,
             {p \in 1..Len(all_track_events) : all_track_events[p].track = n - 1},
             1)

\* C14: the markers are in time order, a marker is a note-off exactly when
\* its message is a note_off or a note_on of velocity 0, and after any
\* number of markers the events emitted are, in order, one for every
\* note-off that found an open note-on of its (note, channel), with the
\* time and velocity of the earliest such note-on and duration = off time -
\* on time >= 0, while every key's queue holds exactly its note-ons not yet
\* closed; so a note-off without an open note-on of its key emits nothing
\* and changes no queue, and no note-off consumes a note-on of another key
C14_FifoPairing ==
    /\ (pc \in {"convert", "pair", "written"}) =>
           \A n \in 1..Len(tracks) :
               /\ Len(MarkersOfTrack(n)) = Len(tracks[n])
               /\ \A m \in 1..Len(tracks[n]) :
                      /\ (MarkersOfTrack(n)[m].type = "off")
                             <=> EndsNote(tracks[n][m])
                      /\ MarkersOfTrack(n)[m].note = tracks[n][m].note
                      /\ MarkersOfTrack(n)[m].channel = tracks[n][m].channel
    /\ (pc = "pair") =>
           /\ \A p \in 1..(Len(raw_events) - 1) :
                  raw_events[p].time <= raw_events[p + 1].time
           /\ data_events = PairedUpTo(ev - 1)
           /\ \A p \in 1..Len(data_events) : data_events[p].duration >= 0
           /\ \A k \in NoteChannels : QueueOf(k) = OpenOf(k, ev - 1)
           /\ \A p \in 1..Len(active_notes) : active_notes[p].k \in NoteChannels

\* C14 witness: a note-off has been paired with the earlier of two open
\* note-ons of its key, the later one staying in the queue
C14_Witness ==
    /\ pc = "pair"
    /\ ev > Len(raw_events)
    /\ \E k \in NoteChannels :
           /\ Len(QueueOf(k)) >= 1
           /\ \E p \in 1..Len(data_events) :
                  /\ data_events[p].midi_number = k[1]
                  /\ data_events[p].channel = k[2]
                  /\ data_events[p].time < QueueOf(k)[1].time
                  /\ data_events[p].duration > 0

\* the note_on messages of velocity > 0, as (track, position)
NoteOnMessages ==
    UNION {{<< n, m >> : m \in {m \in 1..Len(tracks[n]) :
                                  /\ tracks[n][m].type = "note_on"
                                  /\ tracks[n][m].velocity > 0}} :
           n \in 1..Len(tracks)}

\* the position of the note-off that closes the j-th note-on of key k
NthClosing(k, j) ==
    CHOOSE n \in 1..Len(raw_events) :
        MatchedOf(k, n) = j /\ MatchedOf(k, n - 1) = j - 1

\* the end time of the file in microseconds: data["duration"]
EndTime == Round6(midi_current_time)

\* the note-ons as (key, number among the note-ons of the key)
NoteOns ==
    {kj \in NoteChannels \X (1..Len(raw_events)) :
        kj[2] <= Cardinality(OnsOf(kj[1], Len(raw_events)))}

\* the one event of a note-on: closed by its note-off, or at the end of
\* the file
EventOf(kj) ==
    LET start == raw_events[NthOn(kj[1], kj[2])]
        end == IF kj[2] <= MatchedOf(kj[1], Len(raw_events))
               THEN raw_events[NthClosing(kj[1], kj[2])].time
               ELSE EndTime
    IN  [time        |-> start.time,
         midi_number |-> start.note,
         note_name   |-> start.note_name,
         velocity    |-> start.velocity,
         duration    |-> end - start.time,
         channel     |-> start.channel]

\* C15: in the output, every note-on of velocity > 0 has exactly one event
\* (closed by its note-off, or at the end of the file with duration = end
\* time - start time) and there is no other event, every duration is >= 0,
\* num_events is the number of note_on messages of velocity > 0, and the
\* events are in non-decreasing order of start time
C15_OneEventPerNoteOn ==
    (pc = "written") =>
        /\ \A e \in {data_events[p] : p \in 1..Len(data_events)}
                    \cup {EventOf(kj) : kj \in NoteOns} :
               Cardinality({p \in 1..Len(data_events) : data_events[p] = e})
                   = Cardinality({kj \in NoteOns : EventOf(kj) = e})
        /\ \A p \in 1..Len(data_events) : data_events[p].duration >= 0
        /\ data_num_events = Len(data_events)
        /\ data_num_events = Cardinality(NoteOnMessages)
        /\ \A p \in 1..(Len(data_events) - 1) :
               data_events[p].time <= data_events[p + 1].time

\* C15 witness: of two notes one was closed by a note_on of velocity 0 and
\* the other at the end of the file, after a time > 0
C15_Witness ==
    /\ pc = "written"
    /\ data_num_events = 2
    /\ \E n \in 1..Len(tracks) : \E m \in 1..Len(tracks[n]) :
           tracks[n][m].type = "note_on" /\ tracks[n][m].velocity = 0
    /\ \E kj \in NoteOns :
           /\ kj[2] <= MatchedOf(kj[1], Len(raw_events))
           /\ EventOf(kj).duration > 0
    /\ \E kj \in NoteOns :
           /\ kj[2] > MatchedOf(kj[1], Len(raw_events))
           /\ EventOf(kj).duration > 0

----------------------------------------------------------------------------
(* The harmonic-resolution pass only removes events *)

\* how often e occurs in the list s
Occurrences(s, e) == Cardinality({p \in 1..Len(s) : s[p] = e})

\* the raw events the scan has consumed
Consumed == SubSeq(all_events, 1, i)

\* during the scan the output holds no event more often than the consumed
\* raw events do, and the last window kept an event of its largest
\* magnitude
ScanOnlyRemoves ==
    (pc = "resolve") =>
        /\ i <= Len(all_events)
        /\ \A p \in 1..Len(filtered_events) :
               Occurrences(filtered_events, filtered_events[p])
                   <= Occurrences(Consumed, filtered_events[p])
        /\ (i > 0) =>
               /\ window_events # << >>
               /\ \E p \in 1..Len(LastKept) :
                      LastKept[p].magnitude = MaxMagnitude(window_events)
        /\ (i > 0) => filtered_events # << >>

\* the returned list holds no event more often than the raw events do,
\* note_idx apart, and is empty only if there is no raw event
ReturnOnlyRemoves ==
    (pc = "done") =>
        /\ \A p \in 1..Len(filtered_events) :
               Occurrences(filtered_events, filtered_events[p])
                   <= Cardinality({q \in 1..Len(all_events) :
                          WithoutNoteIdx(all_events[q]) = filtered_events[p]})
        /\ (filtered_events = << >>) => (all_events = << >>)

\* a step of the scan takes the next raw events, at least one, as its
\* window and adds some of them to the output; the last step only removes
\* note_idx
ScanAdvances ==
    /\ (pc = "resolve" /\ pc' = "resolve") =>
           /\ i' > i
           /\ i' <= Len(all_events)
           /\ window_events' = SubSeq(all_events, i + 1, i')
           /\ all_events' = all_events
           /\ \E kept \in SUBSET ((i + 1)..i') :
                  /\ kept # {}
                  /\ Len(filtered_events') = Len(filtered_events) + Cardinality(kept)
                  /\ SubSeq(filtered_events', 1, Len(filtered_events))
                         = filtered_events
                  /\ \A q \in kept :
                         \E p \in (Len(filtered_events) + 1)..Len(filtered_events') :
                             filtered_events'[p] = all_events[q]
    /\ (pc = "resolve" /\ pc' = "done") =>
           /\ i = Len(all_events)
           /\ Len(filtered_events') = Len(filtered_events)
           /\ \A p \in 1..Len(filtered_events) :
                  filtered_events'[p] = WithoutNoteIdx(filtered_events[p])

\* C16: the harmonic pass only removes events: the output is a
\* sub-collection of the sorted raw events with nothing duplicated or
\* altered but for note_idx; the windows are consecutive, non-empty slices
\* of the raw events that the scan index passes over one after the other
\* up to the end of the list; every window keeps an event of its largest
\* magnitude, and the output is empty only without raw events
C16_OnlyRemoves ==
    /\ [](ScanOnlyRemoves /\ ReturnOnlyRemoves)
    /\ [][ScanAdvances]_vars

\* C16 witness: the pass returned fewer events than the raw ones after a
\* last window of several events
C16_Witness ==
    /\ pc = "done"
    /\ filtered_events # << >>
    /\ Len(filtered_events) < Len(all_events)
    /\ Len(window_events) > 1

====
